---- MODULE Spec2Model ----
(***************************************************************************)
(* Model of backend/auth.py: the in-memory OTP store (OTPStore), the JWT   *)
(* helpers create_access_token / verify_token, the resolver                *)
(* get_current_user with the user store it queries, the environment the    *)
(* secret is read from, and the clock.                                     *)
(*                                                                         *)
(* Time is counted in ticks, TicksPerSecond ticks to the second, so that   *)
(* the truncation of datetimes to whole seconds done by the JWT encoder is *)
(* visible.  A datetime is the number of ticks since the epoch, a          *)
(* timedelta is a number of ticks.                                         *)
(***************************************************************************)
EXTENDS Integers, Sequences, FiniteSets, TLC

VARIABLES
    environ,    \* os.environ as the module found it when it was imported
    now,        \* the reading of datetime.utcnow(), in ticks
    advances,   \* how many times the clock has moved (bounded)
    store,      \* otp_store.store: dict email -> {otp, expires}
    last,       \* the last OTPStore call: its name, arguments and return value
    issued,     \* per email: what generate_otp last returned, when, and
                \* whether a verify_otp has returned True since
    minted,     \* the last create_access_token call: its arguments, the time,
                \* the claims it built (to_encode)
    token,      \* the token that call returned
    decoded,    \* what the last verify_token returned
    validated,  \* whether a verify_token call has returned the claims of the
                \* token last issued
    threads,    \* per caller thread: the call it is in, the line it is at, its
                \* locals (email, otp, stored), and how its last call ended
    gen,        \* how many generate_otp calls have stored a record (threads)
    rid,        \* per email: which of those calls stored the latest record
    reading,    \* per thread: which call's record its line 33 read
    accepted,   \* per such call: how often verify_otp returned True for its record
    users,      \* db.users: the collection of the user store, _id -> document
    resolved,   \* the outcome of the last get_current_user call
    queries,    \* the find_one queries that call sent to db.users, in order
    calls       \* per email: how many generate_otp calls have been made, and
                \* how many verify_otp calls have returned True (where counted)

tokvars == <<minted, token, decoded, validated>>
concvars == <<threads, gen, rid, reading, accepted>>
resvars == <<users, resolved, queries>>
vars == <<environ, now, advances, store, last, issued, tokvars, concvars, resvars, calls>>

----------------------------------------------------------------------------
(* Bounds and input samples *)

TicksPerSecond == 2
MaxAdvances == 2
MaxCalls == 2

Emails == {"a@x.com", "b@x.com"}

(* string.digits: the string "0123456789", each character written as the    *)
(* digit it shows                                                            *)
string_digits == <<0, 1, 2, 3, 4, 5, 6, 7, 8, 9>>

(* k of random.choices(string.digits, k=6) *)
OTP_LENGTH == 6

(* What the random generator yields, pick after pick, as the index          *)
(* floor(random() * 10) each pick selects: the two streams the model draws.  *)
Draws == {<<0, 0, 0, 0, 0, 0, 0>>, <<4, 8, 2, 9, 1, 3, 7>>}

(* Variant: one pick too few *)
random_choices_short(population, k, draws) ==
    [i \in 1..(k - 1) |-> <<population[draws[i] + 1]>>]

(* random.choices(population, k=k): a list of k one-character strings, the   *)
(* i-th the character of population the i-th pick selects                    *)
random_choices(population, k, draws) ==
    [i \in 1..k |-> <<population[draws[i] + 1]>>]

(* ''.join(parts) *)
RECURSIVE str_join(_)
str_join(parts) ==
    IF parts = <<>> THEN <<>> ELSE Head(parts) \o str_join(Tail(parts))

(* The strings line 22 can build from the streams drawn, among them one     *)
(* with leading zeros.                                                       *)
OtpSample ==
    { str_join(random_choices(string_digits, OTP_LENGTH, d)) : d \in Draws }

(* What a caller may submit to verify_otp: any sampled code, or a string    *)
(* that is no code at all.                                                  *)
Submitted == OtpSample \cup {<<>>}

(* The smaller sample of the specifications with more going on: one code    *)
(* generated, that code or one other string submitted.                       *)
ConcCodes == {<<4, 8, 2, 9, 1, 3>>}
ConcSubmitted == ConcCodes \cup {<<0, 0, 0, 0, 0, 0>>}

(* timedelta(minutes=5) *)
OTP_EXPIRE == 5 * 60 * TicksPerSecond

(* The steps the clock takes: one tick, or the whole OTP lifetime *)
ClockSteps == {1, OTP_EXPIRE}

----------------------------------------------------------------------------
(* OTPStore *)

(* self.store = {} *)
EmptyStore == [e \in {} |-> [otp |-> <<>>, expires |-> 0]]

(* Variants of the dict operations below, each a slip the code could have    *)
(* made: the membership test left out; setdefault in place of assignment;    *)
(* the del left out; the expiry test off by one tick; the comparison         *)
(* accepting any code.                                                       *)
absent_never(s, email) == FALSE

setitem_keep(s, t, email, otp) ==
    [e \in DOMAIN s \cup {email} |->
        IF e \in DOMAIN s THEN s[e] ELSE [otp |-> otp, expires |-> t + OTP_EXPIRE]]

delitem_kept(s, email) == s

(* the del written as a reset of the whole dict *)
delitem_clear(s, email) == [e \in {} |-> s[e]]

(* the expiry test written with >= *)
is_expired_at(t, stored) == t >= stored.expires

is_expired_late(t, stored) == t > stored.expires + 1

matches_any(stored, otp) == TRUE

(* Variant: generate_otp sweeping out every expired record as it stores *)
setitem_sweep(s, t, email, otp) ==
    [e \in {k \in DOMAIN s : t <= s[k].expires} \cup {email} |->
        IF e = email THEN [otp |-> otp, expires |-> t + OTP_EXPIRE] ELSE s[e]]

(* email not in self.store *)
absent(s, email) == email \notin DOMAIN s

(* self.store[email] = {"otp": otp, "expires": utcnow() + timedelta(minutes=5)} *)
setitem(s, t, email, otp) ==
    [e \in DOMAIN s \cup {email} |->
        IF e = email THEN [otp |-> otp, expires |-> t + OTP_EXPIRE] ELSE s[e]]

(* del self.store[email], for a key the dict holds *)
delitem(s, email) == [e \in DOMAIN s \ {email} |-> s[e]]

(* datetime.utcnow() > stored["expires"] *)
is_expired(t, stored) == t > stored.expires

(* stored["otp"] == otp *)
matches(stored, otp) == stored.otp = otp

(* A call's outcome: the value returned, the dict left behind, the exception *)
(* raised ("None" when the call returns normally).                           *)
Returns(v, s) == [ret |-> v, store |-> s, exc |-> "None"]
Raises(x, s) == [ret |-> FALSE, store |-> s, exc |-> x]

(* Variant: verify_otp dropping the record on a wrong code too *)
verify_otp_burn(s, t, email, otp) ==
    IF absent(s, email) THEN Returns(FALSE, s)
    ELSE IF email \notin DOMAIN s THEN Raises("KeyError", s)
    ELSE LET stored == s[email] IN
         IF is_expired(t, stored) THEN Returns(FALSE, delitem(s, email))
         ELSE Returns(matches(stored, otp), delitem(s, email))

(* generate_otp(email), with otp the string random.choices produced *)
generate_otp(s, t, email, otp) == Returns(otp, setitem(s, t, email, otp))

(* verify_otp(email, otp), run from entry to return with nothing in between. *)
(* self.store[email] and del self.store[email] raise KeyError on a key the   *)
(* dict does not hold.                                                       *)
verify_otp(s, t, email, otp) ==
    IF absent(s, email) THEN Returns(FALSE, s)
    ELSE IF email \notin DOMAIN s THEN Raises("KeyError", s)
    ELSE LET stored == s[email] IN
         IF is_expired(t, stored) THEN Returns(FALSE, delitem(s, email))
         ELSE IF matches(stored, otp) THEN Returns(TRUE, delitem(s, email))
         ELSE Returns(FALSE, s)

----------------------------------------------------------------------------
(* OTPStore called from several threads.  A thread is switched only between  *)
(* two accesses to self.store: each step below runs one line that reads or   *)
(* writes the dict, together with the local work that follows it.            *)

Threads == {"t1", "t2"}
MaxGen == 2

NoStored == [otp |-> <<>>, expires |-> 0]

IdleThread ==
    [pc |-> "idle", op |-> "none", email |-> "", otp |-> <<>>,
     stored |-> NoStored, ret |-> FALSE, exc |-> "None"]

(* the call returns v *)
thread_return(th, v) ==
    [IdleThread EXCEPT !.op = th.op, !.ret = v]

(* the call ends with exception x *)
thread_raise(th, x) ==
    [IdleThread EXCEPT !.op = th.op, !.exc = x]

(* One step of thread th on dict s at time t: the thread and the dict after. *)
thread_step(s, t, th) ==
    CASE th.pc = "L23" ->
            [th |-> thread_return(th, TRUE), store |-> setitem(s, t, th.email, th.otp)]
      [] th.pc = "L30" ->
            IF absent(s, th.email)
            THEN [th |-> thread_return(th, FALSE), store |-> s]
            ELSE [th |-> [th EXCEPT !.pc = "L33"], store |-> s]
      [] th.pc = "L33" ->
            IF th.email \notin DOMAIN s
            THEN [th |-> thread_raise(th, "KeyError"), store |-> s]
            ELSE [th |-> [th EXCEPT !.pc = "L34", !.stored = s[th.email]], store |-> s]
      [] th.pc = "L34" ->
            IF is_expired(t, th.stored)
            THEN [th |-> [th EXCEPT !.pc = "L35"], store |-> s]
            ELSE IF matches(th.stored, th.otp)
            THEN [th |-> [th EXCEPT !.pc = "L39"], store |-> s]
            ELSE [th |-> thread_return(th, FALSE), store |-> s]
      [] th.pc \in {"L35", "L39"} ->
            IF th.email \notin DOMAIN s
            THEN [th |-> thread_raise(th, "KeyError"), store |-> s]
            ELSE [th |-> thread_return(th, th.pc = "L39"), store |-> delitem(s, th.email)]

----------------------------------------------------------------------------
(* Tokens *)

(* The environments the process is started in: SECRET_KEY not set, and       *)
(* SECRET_KEY set.                                                           *)
NoEnvironment == [name \in {} |-> ""]
Environments == {NoEnvironment, [name \in {"SECRET_KEY"} |-> "configured-secret"]}

(* os.getenv(name, default) *)
getenv(env, name, default) == IF name \in DOMAIN env THEN env[name] ELSE default

(* the second argument of the getenv call of line 10 *)
DefaultSecret == "your-secret-key-change-in-production"

(* SECRET_KEY = os.getenv("SECRET_KEY", "your-secret-key-change-in-production") *)
SECRET_KEY == getenv(environ, "SECRET_KEY", DefaultSecret)
ALGORITHM == "HS256"
ACCESS_TOKEN_EXPIRE_MINUTES == 60 * 24 * 7

(* Optional[...]: None, or a value *)
None == <<>>
Some(v) == <<v>>

(* timedelta(minutes=m) *)
Minutes(m) == m * 60 * TicksPerSecond

(* Claim values, by Python type *)
PyStr(x) == [str |-> x]
PyInt(n) == [int |-> n]
PyDatetime(t) == [datetime |-> t]
IsStr(v) == DOMAIN v = {"str"}
IsDatetime(v) == DOMAIN v = {"datetime"}

(* The claims callers pass as data: any of a subject (a string, or a number  *)
(* such as a numeric user id), a role, and an expiry of their own.           *)
DataValues ==
    [sub |-> {PyStr("u1"), PyInt(7)}, role |-> {PyStr("admin")}, exp |-> {PyInt(0)}]

ClaimKeys == {"sub", "role", "exp"}

DataInputs ==
    UNION { { d \in [K -> UNION {DataValues[k] : k \in K}] :
                \A k \in K : d[k] \in DataValues[k] } : K \in SUBSET ClaimKeys }

(* The expires_delta callers pass: nothing, minus one second, minus one      *)
(* tick, zero, one tick, one second.                                         *)
DeltaInputs ==
    {None} \cup { Some(d) : d \in {-TicksPerSecond, -1, 0, 1, TicksPerSecond} }

(* bool(expires_delta): None and timedelta(0) are falsy *)
truthy(expires_delta) == expires_delta # None /\ expires_delta[1] # 0

(* to_encode.update({key: value}) *)
dict_update(d, key, value) ==
    [k \in DOMAIN d \cup {key} |-> IF k = key THEN value ELSE d[k]]

(* lines 48-51: expire *)
expire_at(expires_delta, t) ==
    IF truthy(expires_delta)
    THEN t + expires_delta[1]
    ELSE t + Minutes(ACCESS_TOKEN_EXPIRE_MINUTES)

(* Variant: the claims built from the expiry alone, data left out *)
build_claims_exp_only(data, expires_delta, t) ==
    dict_update([k \in {} |-> PyInt(0)], "exp", PyDatetime(expire_at(expires_delta, t)))

(* Variant: to_encode = data, the name bound to the caller's dict *)
dict_alias(objs, ref) == [ref |-> ref, objs |-> objs]

(* data.copy(): a new dict object holding the items of the one copied.  objs *)
(* maps references to the dict objects of the call; ref is the reference     *)
(* the expression yields.                                                    *)
dict_copy(objs, ref) ==
    [ref |-> "copy",
     objs |-> [r \in DOMAIN objs \cup {"copy"} |->
                 IF r = "copy" THEN objs[ref] ELSE objs[r]]]

(* lines 47-53: the dict objects of a call, the caller's under "arg", and    *)
(* the reference to_encode holds, after the update                           *)
call_frame(data, expires_delta, t) ==
    LET copied == dict_copy([r \in {"arg"} |-> data], "arg")
        to_encode == copied.ref
    IN  [to_encode |-> to_encode,
         objs |-> [copied.objs EXCEPT ![to_encode] =
                     dict_update(@, "exp", PyDatetime(expire_at(expires_delta, t)))]]

(* lines 47-53: to_encode after the update *)
build_claims(data, expires_delta, t) ==
    LET frame == call_frame(data, expires_delta, t) IN frame.objs[frame.to_encode]

(* the dict the caller passed as data, as the call leaves it *)
caller_data(data, expires_delta, t) ==
    call_frame(data, expires_delta, t).objs["arg"]

(* timegm(d.utctimetuple()): a datetime as whole seconds since the epoch *)
timegm(t) == t \div TicksPerSecond

(* jwt.encode turns a datetime under exp into whole seconds; the other       *)
(* sampled values are JSON values and are written as they are.               *)
to_json(claims) ==
    [k \in DOMAIN claims |->
        IF k = "exp" /\ IsDatetime(claims[k])
        THEN PyInt(timegm(claims[k].datetime))
        ELSE claims[k]]

(* HMAC-SHA256 of the signing input under key: equal exactly when key and    *)
(* input are                                                                 *)
hmac(key, header, payload) == [key |-> key, header |-> header, payload |-> payload]

(* base64url of the signature, as jws writes the third segment.  The 32      *)
(* bytes of an HS256 signature fill 43 characters: 42 carry six bits of the  *)
(* signature each, the last carries four and two bits over, which the        *)
(* encoder writes as zero.  A segment is the bytes its characters spell and  *)
(* the value of the two bits over.                                           *)
base64url_encode(bytes) == [bytes |-> bytes, spare |-> 0]

(* base64.urlsafe_b64decode reads the bytes and drops the bits over *)
base64url_decode(segment) == segment.bytes

(* jwt.encode(claims, key, algorithm) *)
jwt_encode(claims, key, algorithm) ==
    LET header == [alg |-> algorithm, typ |-> "JWT"]
        payload == to_json(claims)
    IN  [header |-> header, payload |-> payload,
         sig |-> base64url_encode(hmac(key, header, payload))]

NoToken == [none |-> TRUE]
IsToken(tok) == DOMAIN tok = {"header", "payload", "sig"}

(* A string that is not three base64url segments *)
Malformed == [text |-> "not-a-token"]

(* A secret other than the one the process signs with *)
OtherSecret == "another-secret"

(* What a caller may present where the token tok was issued: tok itself; a   *)
(* malformed string; tok with a character of its signature segment altered   *)
(* in bits of the signature; tok with the last character of its signature    *)
(* segment altered in the bits over only; the claims of tok signed with      *)
(* another secret.                                                           *)
TokenKinds == {"issued", "malformed", "sig_altered", "sig_last_char", "other_secret"}

present(kind, tok) ==
    CASE kind = "issued" -> tok
      [] kind = "malformed" -> Malformed
      [] kind = "sig_altered" ->
            [tok EXCEPT !.sig = [bytes |-> [altered |-> @.bytes], spare |-> @.spare]]
      [] kind = "sig_last_char" ->
            [tok EXCEPT !.sig = [bytes |-> @.bytes, spare |-> 1]]
      [] kind = "other_secret" ->
            [tok EXCEPT !.sig =
                base64url_encode(hmac(OtherSecret, tok.header, tok.payload))]

(* jwt.decode(token, key, algorithms), read at time t: the payload, or the   *)
(* JWTError it raises (a malformed token, an algorithm not allowed, a        *)
(* signature that does not verify, an expired exp, a sub that is no string). *)
jwt_decode(tok, key, algorithms, t, verify_exp) ==
    IF ~IsToken(tok) THEN [err |-> "JWTError"]
    ELSE IF tok.header.alg \notin algorithms THEN [err |-> "JWTError"]
    ELSE IF base64url_decode(tok.sig) # hmac(key, tok.header, tok.payload)
         THEN [err |-> "JWTError"]
    ELSE IF /\ verify_exp
            /\ "exp" \in DOMAIN tok.payload
            /\ tok.payload["exp"].int < timegm(t)
         THEN [err |-> "ExpiredSignatureError"]
    ELSE IF "sub" \in DOMAIN tok.payload /\ ~IsStr(tok.payload["sub"])
         THEN [err |-> "JWTClaimsError"]
    ELSE [payload |-> tok.payload]

(* create_access_token(data, expires_delta) called at time t *)
create_access_token(data, expires_delta, t) ==
    jwt_encode(build_claims(data, expires_delta, t), SECRET_KEY, ALGORITHM)

(* JWTError and its subclasses *)
JWTErrors == {"JWTError", "ExpiredSignatureError", "JWTClaimsError"}

(* Variant: the handler written for the expiry error alone *)
caught_expiry_only(err) == err = "ExpiredSignatureError"

(* except JWTError *)
caught(err) == err \in JWTErrors

(* The outcome of verify_token: the value returned and the exception that    *)
(* leaves the call ("None" when it returns).                                 *)
TokenReturns(v) == [ret |-> v, exc |-> "None"]
TokenRaises(x) == [ret |-> None, exc |-> x]

(* Variant: decoding with the expiry check switched off *)
verify_token_no_exp(tok, t) ==
    LET r == jwt_decode(tok, SECRET_KEY, {ALGORITHM}, t, FALSE) IN
    IF "err" \in DOMAIN r
    THEN IF caught(r.err) THEN TokenReturns(None) ELSE TokenRaises(r.err)
    ELSE TokenReturns(Some(r.payload))

(* verify_token(token) called at time t: every JWTError becomes None *)
verify_token(tok, t) ==
    LET r == jwt_decode(tok, SECRET_KEY, {ALGORITHM}, t, TRUE) IN
    IF "err" \in DOMAIN r
    THEN IF caught(r.err) THEN TokenReturns(None) ELSE TokenRaises(r.err)
    ELSE TokenReturns(Some(r.payload))

(* bool(x) of an Optional dict and of an Optional claim value: None, {} and  *)
(* "" and 0 are falsy                                                        *)
truthy_dict(x) == x # None /\ DOMAIN x[1] # {}
truthy_value(x) ==
    /\ x # None
    /\ (IsStr(x[1]) => x[1].str # "")
    /\ (DOMAIN x[1] = {"int"} => x[1].int # 0)

(* payload.get(key) *)
dict_get(d, key) == IF key \in DOMAIN d THEN Some(d[key]) ELSE None

(* db.users as the model draws it: documents under some of these _id values *)
UserIds == {PyStr("u1"), PyStr("")}
Collection(ids) == [i \in ids |-> [_id |-> i, name |-> "user"]]

(* await db.users.find_one({"_id": user_id}) *)
find_one(coll, user_id) ==
    IF user_id \in DOMAIN coll THEN Some(coll[user_id]) ELSE None

(* The outcome of get_current_user: the value returned, the queries sent to  *)
(* db.users, the collection left behind, the exception leaving the call.     *)
Resolves(v, qs, coll) == [ret |-> v, queries |-> qs, users |-> coll, exc |-> "None"]
ResolveRaises(x, coll) == [ret |-> None, queries |-> <<>>, users |-> coll, exc |-> x]

(* Variant: a resolver that repairs the store, writing a document for a      *)
(* subject it does not find                                                  *)
get_current_user_repair(coll, tok, t) ==
    LET v == verify_token(tok, t) IN
    IF v.exc # "None" THEN ResolveRaises(v.exc, coll)
    ELSE IF ~truthy_dict(v.ret) THEN Resolves(None, <<>>, coll)
    ELSE LET user_id == dict_get(v.ret[1], "sub") IN
         IF ~truthy_value(user_id) THEN Resolves(None, <<>>, coll)
         ELSE LET repaired == Collection(DOMAIN coll \cup {user_id[1]}) IN
              Resolves(find_one(repaired, user_id[1]), <<user_id[1]>>, repaired)

(* get_current_user(db, token) called at time t on the collection coll *)
get_current_user(coll, tok, t) ==
    LET v == verify_token(tok, t) IN
    IF v.exc # "None" THEN ResolveRaises(v.exc, coll)
    ELSE IF ~truthy_dict(v.ret) THEN Resolves(None, <<>>, coll)
    ELSE LET user_id == dict_get(v.ret[1], "sub") IN
         IF ~truthy_value(user_id) THEN Resolves(None, <<>>, coll)
         ELSE Resolves(find_one(coll, user_id[1]), <<user_id[1]>>, coll)

NoMint ==
    [data |-> [k \in {} |-> PyInt(0)], delta |-> None, at |-> 0,
     to_encode |-> [k \in {} |-> PyInt(0)], left |-> [k \in {} |-> PyInt(0)]]

----------------------------------------------------------------------------
(* History kept for the claims, per email: the code generate_otp last        *)
(* returned and when, the code it returned the time before, and whether a    *)
(* verify_otp has returned True since.                                       *)

NoIssue ==
    [live |-> FALSE, code |-> <<>>, at |-> 0, prev |-> <<>>, used |-> FALSE]

(* the last call; tok is what a token call was given, as a kind of TokenKinds *)
NoCall ==
    [op |-> "none", email |-> "", otp |-> <<>>, tok |-> "none", ret |-> FALSE,
     exc |-> "None"]

----------------------------------------------------------------------------
(* Actions *)

(* The module as imported by a process started in environment env *)
Imported(env) ==
    /\ environ = env
    /\ now = 0
    /\ advances = 0
    /\ store = EmptyStore
    /\ last = NoCall
    /\ issued = [e \in Emails |-> NoIssue]
    /\ minted = NoMint
    /\ token = NoToken
    /\ decoded = None
    /\ validated = FALSE
    /\ threads = [t \in Threads |-> IdleThread]
    /\ gen = 0
    /\ rid = [e \in Emails |-> 0]
    /\ reading = [t \in Threads |-> 0]
    /\ accepted = [g \in 1..MaxGen |-> 0]
    /\ users = Collection({})
    /\ resolved = None
    /\ queries = <<>>
    /\ calls = [e \in Emails |-> [generated |-> 0, accepted |-> 0]]

(* The process as it runs out of the box, SECRET_KEY not set.  The           *)
(* specifications below start here: none of their claims turns on which      *)
(* string the secret is.                                                     *)
Init == Imported(NoEnvironment)

(* The process started in any of the environments *)
Start == \E env \in Environments : Imported(env)

(* The wall clock moves between calls *)
Tick(d) ==
    /\ advances < MaxAdvances
    /\ now' = now + d
    /\ advances' = advances + 1
    /\ last' = [NoCall EXCEPT !.op = "tick"]
    /\ UNCHANGED <<environ, calls, store, issued, tokvars, concvars, resvars>>

(* otp_store.generate_otp(email), random.choices drawing otp *)
GenerateOtp(email, otp) ==
    LET r == generate_otp(store, now, email, otp) IN
    /\ store' = r.store
    /\ last' = [NoCall EXCEPT !.op = "generate_otp", !.email = email, !.otp = r.ret,
                              !.ret = TRUE, !.exc = r.exc]
    /\ issued' = [issued EXCEPT ![email] =
                    [live |-> TRUE, code |-> r.ret, at |-> now, prev |-> @.code,
                     used |-> FALSE]]
    /\ UNCHANGED <<environ, calls, now, advances, tokvars, concvars, resvars>>

(* otp_store.verify_otp(email, otp) *)
VerifyOtp(email, otp) ==
    LET r == verify_otp(store, now, email, otp) IN
    /\ store' = r.store
    /\ last' = [NoCall EXCEPT !.op = "verify_otp", !.email = email, !.otp = otp,
                              !.ret = r.ret, !.exc = r.exc]
    /\ issued' = [issued EXCEPT ![email].used = @ \/ r.ret]
    /\ UNCHANGED <<environ, calls, now, advances, tokvars, concvars, resvars>>

Next ==
    \/ \E d \in ClockSteps : Tick(d)
    \/ \E e \in Emails, c \in OtpSample : GenerateOtp(e, c)
    \/ \E e \in Emails, c \in Submitted : VerifyOtp(e, c)

Spec == Init /\ [][Next]_vars

(* generate_otp and verify_otp with the calls counted, up to MaxCalls        *)
(* generate_otp calls an account                                             *)
CountedGenerateOtp(email, otp) ==
    LET r == generate_otp(store, now, email, otp) IN
    /\ calls[email].generated < MaxCalls
    /\ store' = r.store
    /\ last' = [NoCall EXCEPT !.op = "generate_otp", !.email = email, !.otp = r.ret,
                              !.ret = TRUE, !.exc = r.exc]
    /\ calls' = [calls EXCEPT ![email].generated = @ + 1]
    /\ UNCHANGED <<environ, now, advances, issued, tokvars, concvars, resvars>>

CountedVerifyOtp(email, otp) ==
    LET r == verify_otp(store, now, email, otp) IN
    /\ store' = r.store
    /\ last' = [NoCall EXCEPT !.op = "verify_otp", !.email = email, !.otp = otp,
                              !.ret = r.ret, !.exc = r.exc]
    /\ calls' = [calls EXCEPT ![email].accepted = IF r.ret THEN @ + 1 ELSE @]
    /\ UNCHANGED <<environ, now, advances, issued, tokvars, concvars, resvars>>

CountNext ==
    \/ \E d \in ClockSteps : Tick(d)
    \/ \E e \in Emails, c \in OtpSample : CountedGenerateOtp(e, c)
    \/ \E e \in Emails, c \in Submitted : CountedVerifyOtp(e, c)

(* The OTP store with its calls counted, calls running one after the other *)
CountSpec == Init /\ [][CountNext]_vars

(* create_access_token(data, expires_delta) *)
CreateAccessToken(data, expires_delta) ==
    /\ minted' = [data |-> data, delta |-> expires_delta, at |-> now,
                  to_encode |-> build_claims(data, expires_delta, now),
                  left |-> caller_data(data, expires_delta, now)]
    /\ token' = create_access_token(data, expires_delta, now)
    /\ validated' = FALSE
    /\ last' = [NoCall EXCEPT !.op = "create_access_token"]
    /\ UNCHANGED <<environ, calls, now, advances, store, issued, decoded, concvars, resvars>>

(* verify_token(t), t being the token last issued or made from it *)
VerifyToken(kind) ==
    LET r == verify_token(present(kind, token), now) IN
    /\ token # NoToken
    /\ decoded' = r.ret
    /\ validated' = (validated \/ (kind = "issued" /\ r.ret # None))
    /\ last' = [NoCall EXCEPT !.op = "verify_token", !.tok = kind, !.exc = r.exc]
    /\ UNCHANGED <<environ, calls, now, advances, store, issued, minted, token, concvars, resvars>>

TokenNext ==
    \/ \E d \in ClockSteps : Tick(d)
    \/ \E data \in DataInputs, delta \in DeltaInputs : CreateAccessToken(data, delta)
    \/ \E kind \in TokenKinds : VerifyToken(kind)

(* The token helpers and the clock, calls running one after the other *)
TokenSpec == Init /\ [][TokenNext]_vars

(* get_current_user(db, t), t being the token last issued or made from it *)
GetCurrentUser(kind) ==
    LET r == get_current_user(users, present(kind, token), now) IN
    /\ token # NoToken
    /\ users' = r.users
    /\ resolved' = r.ret
    /\ queries' = r.queries
    /\ last' = [NoCall EXCEPT !.op = "get_current_user", !.tok = kind, !.exc = r.exc]
    /\ UNCHANGED <<environ, calls, now, advances, store, issued, tokvars, concvars>>

(* Another client of the datastore writes db.users: a user is registered, a  *)
(* user is deleted.                                                          *)
InsertUser(id) ==
    /\ id \notin DOMAIN users
    /\ users' = Collection(DOMAIN users \cup {id})
    /\ last' = [NoCall EXCEPT !.op = "insert_user"]
    /\ UNCHANGED <<environ, calls, now, advances, store, issued, tokvars, concvars, resolved, queries>>

DeleteUser(id) ==
    /\ id \in DOMAIN users
    /\ users' = Collection(DOMAIN users \ {id})
    /\ last' = [NoCall EXCEPT !.op = "delete_user"]
    /\ UNCHANGED <<environ, calls, now, advances, store, issued, tokvars, concvars, resolved, queries>>

(* The claims and ttls given to create_access_token where tokens are         *)
(* resolved: no subject, or a subject that is a user id, the empty string,   *)
(* or a number; a ttl of a second before, a second after, or none.           *)
ResolveData ==
    { d \in DataInputs : DOMAIN d \subseteq {"sub"} } \cup {[sub |-> PyStr("")]}
ResolveDeltas == {None, Some(-TicksPerSecond), Some(TicksPerSecond)}

ResolveNext ==
    \/ \E d \in ClockSteps : Tick(d)
    \/ \E c \in ConcCodes : GenerateOtp("a@x.com", c)
    \/ \E data \in ResolveData, delta \in ResolveDeltas : CreateAccessToken(data, delta)
    \/ \E kind \in TokenKinds : GetCurrentUser(kind)
    \/ \E id \in UserIds : InsertUser(id)
    \/ \E id \in UserIds : DeleteUser(id)

(* The resolver with the token helper, the user store and the OTP store *)
ResolveSpec == Init /\ [][ResolveNext]_vars

(* The token helpers in a process started with or without SECRET_KEY *)
StartNext ==
    \/ \E d \in ClockSteps : Tick(d)
    \/ \E data \in ResolveData, delta \in ResolveDeltas : CreateAccessToken(data, delta)
    \/ \E kind \in TokenKinds : VerifyToken(kind)

StartSpec == Start /\ [][StartNext]_vars

(* Every operation of the module in one process, on a small sample: the     *)
(* clock moves a tick or past the lifetime of a code; one code is generated  *)
(* and submitted; tokens carry a subject and a ttl of a tick before or       *)
(* after, and are presented as issued.                                       *)
AuthClock == {1, OTP_EXPIRE + 1}
AuthData == {[sub |-> PyStr("u1")]}
AuthDeltas == {Some(-1), Some(1)}

AuthNext ==
    \/ \E d \in AuthClock : Tick(d)
    \/ \E e \in Emails, c \in ConcCodes : GenerateOtp(e, c)
    \/ \E e \in Emails, c \in ConcCodes : VerifyOtp(e, c)
    \/ \E data \in AuthData, delta \in AuthDeltas : CreateAccessToken(data, delta)
    \/ VerifyToken("issued")

AuthSpec == Init /\ [][AuthNext]_vars

(* A thread enters generate_otp(email); random.choices draws otp *)
CallGenerateOtp(t, email, otp) ==
    /\ threads[t].pc = "idle"
    /\ gen + Cardinality({u \in Threads : threads[u].pc = "L23"}) < MaxGen
    /\ threads' = [threads EXCEPT ![t] =
                     [IdleThread EXCEPT !.pc = "L23", !.op = "generate_otp",
                                        !.email = email, !.otp = otp]]
    /\ UNCHANGED <<environ, calls, now, advances, store, last, issued, tokvars, resvars, gen, rid, reading, accepted>>

(* A thread enters verify_otp(email, otp) *)
CallVerifyOtp(t, email, otp) ==
    /\ threads[t].pc = "idle"
    /\ threads' = [threads EXCEPT ![t] =
                     [IdleThread EXCEPT !.pc = "L30", !.op = "verify_otp",
                                        !.email = email, !.otp = otp]]
    /\ UNCHANGED <<environ, calls, now, advances, store, last, issued, tokvars, resvars, gen, rid, reading, accepted>>

(* A thread inside a call runs up to its next access to the dict.  The       *)
(* history notes which generate_otp call's record line 33 read, and which    *)
(* records a call returned True for.                                         *)
ThreadStep(t) ==
    LET th == threads[t]
        r == thread_step(store, now, th)
        stores == th.pc = "L23"
        reads == th.pc = "L33" /\ r.th.pc = "L34"
        accepts == th.pc = "L39" /\ r.th.exc = "None"
    IN  /\ th.pc # "idle"
        /\ threads' = [threads EXCEPT ![t] = r.th]
        /\ store' = r.store
        /\ gen' = IF stores THEN gen + 1 ELSE gen
        /\ rid' = IF stores THEN [rid EXCEPT ![th.email] = gen + 1] ELSE rid
        /\ reading' = [reading EXCEPT ![t] =
                         IF reads THEN rid[th.email]
                         ELSE IF r.th.pc = "idle" THEN 0 ELSE @]
        /\ accepted' = IF accepts
                       THEN [accepted EXCEPT ![reading[t]] = @ + 1]
                       ELSE accepted
        /\ UNCHANGED <<environ, calls, now, advances, last, issued, tokvars, resvars>>

(* Concurrent callers work on one generated code and one other string, and   *)
(* the clock jumps past the lifetime of a record.                            *)

ConcNext ==
    \/ Tick(OTP_EXPIRE + 1)
    \/ \E t \in Threads, e \in Emails, c \in ConcCodes : CallGenerateOtp(t, e, c)
    \/ \E t \in Threads, e \in Emails, c \in ConcSubmitted : CallVerifyOtp(t, e, c)
    \/ \E t \in Threads : ThreadStep(t)

(* OTPStore under concurrent callers *)
ConcSpec == Init /\ [][ConcNext]_vars


----------------------------------------------------------------------------
(* Claims about the OTP store, calls running one after the other *)

(* the record generate_otp(e) wrote when it last ran *)
IssuedRecord(e) == [otp |-> issued[e].code, expires |-> issued[e].at + OTP_EXPIRE]

(* the time is not past the expiry of the code last generated for e *)
InWindow(e) == issued[e].live /\ now <= issued[e].at + OTP_EXPIRE

(* C1: single use.  After generate_otp(e) returned c, while the expiry has   *)
(* not passed and no generate_otp(e) intervened, verify_otp(e, c) returns    *)
(* True exactly when no verify_otp(e, c) has returned True before, and a     *)
(* call that returns True leaves no record for e.                            *)
C1_SingleUse ==
    [][\A e \in Emails :
         (VerifyOtp(e, issued[e].code) /\ InWindow(e))
            => /\ last'.exc = "None"
               /\ last'.ret = ~issued[e].used
               /\ e \notin DOMAIN store']_vars

(* C1 witness: the correct code, submitted a second time within the window,  *)
(* was refused.                                                              *)
C1_Witness ==
    \E e \in Emails :
        /\ last.op = "verify_otp" /\ last.email = e
        /\ InWindow(e) /\ issued[e].used
        /\ last.otp = issued[e].code
        /\ last.ret = FALSE

(* C2: expiry.  A verify_otp(e, x) called later than 5 minutes after the     *)
(* generate_otp(e) that created the record returns False for every x and     *)
(* leaves no record for e.                                                   *)
C2_Expiry ==
    [][\A e \in Emails, x \in Submitted :
         (VerifyOtp(e, x) /\ issued[e].live /\ now > issued[e].at + OTP_EXPIRE)
            => /\ last'.exc = "None"
               /\ last'.ret = FALSE
               /\ e \notin DOMAIN store']_vars

(* C2 witness: the correct, never used code was refused after the window.    *)
C2_Witness ==
    \E e \in Emails :
        /\ last.op = "verify_otp" /\ last.email = e
        /\ issued[e].live /\ ~issued[e].used
        /\ now > issued[e].at + OTP_EXPIRE
        /\ last.otp = issued[e].code
        /\ last.ret = FALSE
        /\ e \notin DOMAIN store

(* verify_otp(e, x) is called with x not the code generated for e, within    *)
(* the window of a code that has not been accepted                           *)
WrongAttempt(e, x) ==
    /\ VerifyOtp(e, x)
    /\ InWindow(e) /\ ~issued[e].used
    /\ x # issued[e].code

(* C3: a wrong code is retryable.  verify_otp(e, x) with a wrong x on an     *)
(* unexpired record returns False and leaves the store as it was, the record *)
(* for e being the one generate_otp wrote (code and expiry), so that         *)
(* verify_otp(e, correct code) then returns True.                            *)
C3_WrongCodeRetryable ==
    [][\A e \in Emails, x \in Submitted :
         WrongAttempt(e, x)
            => /\ last'.ret = FALSE /\ last'.exc = "None"
               /\ store' = store
               /\ e \in DOMAIN store'
               /\ store'[e] = IssuedRecord(e)
               /\ verify_otp(store', now', e, issued[e].code).ret = TRUE]_vars

(* C3 witness: a wrong sampled code was just refused within the window of a  *)
(* code not yet accepted, and the record stands.                             *)
C3_Witness ==
    \E e \in Emails :
        /\ last.op = "verify_otp" /\ last.email = e
        /\ InWindow(e) /\ ~issued[e].used
        /\ last.otp \in OtpSample /\ last.otp # issued[e].code
        /\ last.ret = FALSE
        /\ e \in DOMAIN store

(* C4: fail closed on absence.  verify_otp(e, x) for an e with no record     *)
(* returns False, raises nothing and leaves the store as it was.             *)
C4_AbsentFailsClosed ==
    [][\A e \in Emails, x \in Submitted :
         (VerifyOtp(e, x) /\ e \notin DOMAIN store)
            => /\ last'.ret = FALSE
               /\ last'.exc = "None"
               /\ store' = store]_vars

(* C4 witness: verify_otp was refused for an email whose code was consumed.  *)
C4_Witness ==
    \E e \in Emails :
        /\ last.op = "verify_otp" /\ last.email = e
        /\ issued[e].used /\ last.otp = issued[e].code
        /\ last.ret = FALSE /\ last.exc = "None"
        /\ e \notin DOMAIN store

(* Where the account e stands in the lifecycle of its code: no record; a     *)
(* record whose five minutes have not passed; a record whose five minutes    *)
(* have passed.                                                              *)
Phase(e) ==
    IF e \notin DOMAIN store THEN "none"
    ELSE IF now > issued[e].at + OTP_EXPIRE THEN "expired"
    ELSE "pending"

(* C16: lifecycle conformance.  Every step is a transition of the state      *)
(* machine over {no record, pending unexpired, pending expired}:             *)
(* generate_otp(e) leads to pending from anywhere; verify_otp(e, x) leads    *)
(* from pending to no record and True on the stored code, stays in pending   *)
(* with the record untouched and False on another, leads from expired to no  *)
(* record and False, stays at no record and False; time leads from pending   *)
(* to expired or nowhere; calls on another account lead nowhere.  A record   *)
(* is removed only by verify_otp on the stored code before expiry or by      *)
(* verify_otp on an expired record.                                          *)
C16_Lifecycle ==
    [][\A e \in Emails :
        LET x == last'.otp
            mine == last'.email = e
            generates == last'.op = "generate_otp"
            verifies == last'.op = "verify_otp"
        IN
        /\ (generates /\ mine)
                => /\ Phase(e)' = "pending"
                   /\ store'[e] = [otp |-> x, expires |-> now + OTP_EXPIRE]
        /\ (verifies /\ mine)
                => CASE Phase(e) = "pending" /\ x = store[e].otp ->
                            Phase(e)' = "none" /\ last'.ret
                     [] Phase(e) = "pending" /\ x # store[e].otp ->
                            Phase(e)' = "pending" /\ store'[e] = store[e] /\ ~last'.ret
                     [] Phase(e) = "expired" ->
                            Phase(e)' = "none" /\ ~last'.ret
                     [] Phase(e) = "none" ->
                            Phase(e)' = "none" /\ ~last'.ret
        /\ last'.op = "tick"
                => /\ store' = store
                   /\ Phase(e) # "pending" => Phase(e)' = Phase(e)
                   /\ Phase(e) = "pending" => Phase(e)' \in {"pending", "expired"}
        /\ ((generates \/ verifies) /\ ~mine)
                => /\ Phase(e)' = Phase(e)
                   /\ e \in DOMAIN store => store'[e] = store[e]
        /\ (e \in DOMAIN store /\ e \notin DOMAIN store')
                => /\ verifies /\ mine
                   /\ Phase(e) = "expired" \/ x = store[e].otp]_vars

(* C16 witness: a wrong code was refused for an account in pending, whose    *)
(* record stays, while the other account's record has expired and stays      *)
(* too.                                                                      *)
C16_Witness ==
    \E e \in Emails, o \in Emails :
        /\ last.op = "verify_otp" /\ last.email = e /\ ~last.ret
        /\ Phase(e) = "pending" /\ last.otp # store[e].otp
        /\ Phase(o) = "expired"

(* C19: the expiry boundary is inclusive.  A record is expired only when     *)
(* the time is strictly later than its expiry: verify_otp with the stored    *)
(* code returns True and consumes the record at every time up to and         *)
(* including the expiry, five minutes after generate_otp, and returns False  *)
(* after it.                                                                 *)
C19_BoundaryInclusive ==
    [][\A e \in Emails :
        ( /\ last'.op = "verify_otp" /\ last'.email = e
          /\ e \in DOMAIN store /\ last'.otp = store[e].otp )
            => /\ store[e].expires = issued[e].at + OTP_EXPIRE
               /\ last'.ret = (now <= issued[e].at + OTP_EXPIRE)
               /\ e \notin DOMAIN store']_vars

(* C19 witness: verify_otp returned True, and consumed the record, exactly   *)
(* five minutes after generate_otp.                                          *)
C19_Witness ==
    \E e \in Emails :
        /\ last.op = "verify_otp" /\ last.email = e /\ last.ret
        /\ issued[e].live /\ now = issued[e].at + OTP_EXPIRE
        /\ e \notin DOMAIN store

(* C20: in every sequence of generate_otp and verify_otp calls, with time    *)
(* advancing between them, the verify_otp calls that returned True for an    *)
(* account never outnumber the generate_otp calls for it, and a verify_otp   *)
(* call that returns True leaves no record for the account.                  *)
C20_AcceptedWithinGenerated ==
    /\ \A e \in Emails : calls[e].accepted <= calls[e].generated
    /\ (last.op = "verify_otp" /\ last.ret) => last.email \notin DOMAIN store

(* C20 witness: every generate_otp call allowed for an account was made and  *)
(* each code was accepted once, the last leaving no record.                  *)
C20_Witness ==
    \E e \in Emails :
        /\ calls[e].generated = MaxCalls /\ calls[e].accepted = MaxCalls
        /\ last.op = "verify_otp" /\ last.email = e /\ last.ret
        /\ e \notin DOMAIN store

(* C14: every value generate_otp returns is a string of exactly 6           *)
(* characters, each of '0'..'9' (leading zeros allowed), and the code        *)
(* stored for the account equals the returned string.                        *)
C14_OtpFormat ==
    last.op = "generate_otp"
        => /\ Len(last.otp) = 6
           /\ \A i \in 1..Len(last.otp) : last.otp[i] \in 0..9
           /\ last.email \in DOMAIN store
           /\ store[last.email].otp = last.otp

(* C14 witness: generate_otp returned a code with a leading zero and stored  *)
(* it.                                                                       *)
C14_Witness ==
    /\ last.op = "generate_otp"
    /\ last.otp[1] = 0
    /\ store[last.email].otp = last.otp

(* C5: overwrite on generate.  generate_otp(e) leaves for e exactly the      *)
(* record of the code it returns, expiring 5 minutes from now, whatever was  *)
(* there; and verify_otp(e, x) returns True only for the x most recently     *)
(* generated for e.                                                          *)
C5_OverwriteOnGenerate ==
    [][/\ \A e \in Emails, c \in OtpSample :
            GenerateOtp(e, c)
                => /\ last'.otp = c
                   /\ e \in DOMAIN store'
                   /\ store'[e] = [otp |-> c, expires |-> now + OTP_EXPIRE]
       /\ \A e \in Emails, x \in Submitted :
            (VerifyOtp(e, x) /\ last'.ret)
                => (issued[e].live /\ x = issued[e].code)]_vars

(* C5 witness: a code was replaced by a different one, and the code issued   *)
(* before was then refused while the new record stands.                      *)
C5_Witness ==
    \E e \in Emails :
        /\ last.op = "verify_otp" /\ last.email = e
        /\ issued[e].prev \in OtpSample
        /\ issued[e].prev # issued[e].code
        /\ last.otp = issued[e].prev
        /\ last.ret = FALSE
        /\ e \in DOMAIN store


----------------------------------------------------------------------------
(* Claims about the tokens *)

(* the last call was verify_token, on the token create_access_token built    *)
(* from minted                                                               *)
Validated == last.op = "verify_token" /\ last.tok = "issued" /\ IsToken(token)

(* ... and no time has passed since that token was issued *)
ValidatedAtOnce == Validated /\ now = minted.at

(* a ttl was supplied and is positive *)
PositiveTtl == minted.delta # None /\ minted.delta[1] > 0

(* verify_token returned a mapping holding every key of data but exp with    *)
(* data's value, and under exp the injected expiry, in whole seconds         *)
RoundTrips ==
    /\ decoded # None
    /\ \A k \in DOMAIN minted.data \ {"exp"} :
          k \in DOMAIN decoded[1] /\ decoded[1][k] = minted.data[k]
    /\ "exp" \in DOMAIN decoded[1]
    /\ decoded[1]["exp"] = PyInt(timegm(minted.at + minted.delta[1]))

(* C8 as stated: the round trip succeeds for every claims payload and every  *)
(* ttl > 0, right after issuance.                                            *)
C8_RoundTripAnyPayload ==
    (ValidatedAtOnce /\ PositiveTtl) => RoundTrips

(* C8, amended: the round trip succeeds for every claims payload whose       *)
(* subject, when it has one, is a string, and every ttl > 0, right after     *)
(* issuance.                                                                 *)
C8_RoundTrip ==
    ( /\ ValidatedAtOnce /\ PositiveTtl
      /\ ("sub" \in DOMAIN minted.data => IsStr(minted.data["sub"])) )
        => RoundTrips

(* C8 witness: a payload with a string subject, a role and an expiry of the  *)
(* caller's, issued with a ttl of one tick, came back from verify_token.     *)
C8_Witness ==
    /\ ValidatedAtOnce
    /\ minted.delta = Some(1)
    /\ DOMAIN minted.data = ClaimKeys
    /\ IsStr(minted.data["sub"])
    /\ decoded # None
    /\ decoded[1]["exp"] # minted.data["exp"]

(* C9 as stated: the expiry claim create_access_token sets is the time of    *)
(* issuance plus ttl for every supplied ttl (positive, zero or negative),    *)
(* plus 7 days only when no ttl is supplied, whatever expiry data held.      *)
C9_ExpiryIsNowPlusTtl ==
    last.op = "create_access_token"
        => /\ "exp" \in DOMAIN minted.to_encode
           /\ minted.to_encode["exp"] =
                PyDatetime(minted.at +
                    (IF minted.delta = None
                     THEN Minutes(ACCESS_TOKEN_EXPIRE_MINUTES)
                     ELSE minted.delta[1]))

(* C10 as stated: verify_token returns nothing for a token issued with       *)
(* ttl = -1 second, and for any token whose expiry claim is in the past when *)
(* it is validated.                                                          *)
C10_ExpiredRejectedToTheTick ==
    Validated
        => /\ (minted.delta = Some(-TicksPerSecond) => decoded = None)
           /\ (token.payload["exp"].int * TicksPerSecond < now => decoded = None)

(* C10, amended: verify_token returns nothing for a token issued with        *)
(* ttl = -1 second, and for any token whose expiry claim, in whole seconds,  *)
(* is earlier than the time of validation cut to whole seconds.              *)
C10_ExpiredRejected ==
    Validated
        => /\ (minted.delta = Some(-TicksPerSecond) => decoded = None)
           /\ (token.payload["exp"].int < timegm(now) => decoded = None)

(* C10 witness: a token with a string subject issued with ttl = -1 second    *)
(* was refused.                                                              *)
C10_Witness ==
    /\ Validated
    /\ minted.delta = Some(-TicksPerSecond)
    /\ "sub" \in DOMAIN minted.data /\ IsStr(minted.data["sub"])
    /\ decoded = None

(* C15: a missing secret is fatal.  When no secret is configured in the      *)
(* environment the process starts in, startup aborts: no token call runs,    *)
(* and no token is ever signed or verified with the built-in default         *)
(* secret.                                                                   *)
C15_MissingSecretIsFatal ==
    /\ "SECRET_KEY" \notin DOMAIN environ
            => last.op \notin {"create_access_token", "verify_token"}
    /\ IsToken(token) => base64url_decode(token.sig).key # DefaultSecret
    /\ last.op = "verify_token" => SECRET_KEY # DefaultSecret

(* the token last issued would validate now if presented as issued *)
IssuedIsGood == IsToken(token) /\ verify_token(token, now).ret # None

(* verify_token returned nothing and raised nothing *)
FailedQuietly == decoded = None /\ last.exc = "None"

(* the expiry claim of the token last issued, in whole seconds, is earlier   *)
(* than the present second                                                   *)
IssuedIsExpired == IsToken(token) /\ token.payload["exp"].int < timegm(now)

(* C11 as stated: verify_token returns nothing and raises nothing for a      *)
(* malformed token, for a token whose signature segment has been altered in  *)
(* any character or was produced with a different secret, and for an         *)
(* expired token: the caller cannot tell the failures apart.                 *)
C11_UniformFailureAnyCharacter ==
    ( /\ last.op = "verify_token"
      /\ \/ last.tok \in {"malformed", "sig_altered", "sig_last_char", "other_secret"}
         \/ last.tok = "issued" /\ IssuedIsExpired )
        => FailedQuietly

(* C11, amended: verify_token returns nothing and raises nothing for a       *)
(* malformed token, for a token whose signature segment has been altered so  *)
(* that it decodes to other bytes or was produced with a different secret,   *)
(* and for an expired token: the caller cannot tell the failures apart.      *)
C11_UniformFailure ==
    ( /\ last.op = "verify_token"
      /\ \/ last.tok \in {"malformed", "sig_altered", "other_secret"}
         \/ last.tok = "issued" /\ IssuedIsExpired )
        => FailedQuietly

(* C11 witness: a token that would validate as issued was refused with a     *)
(* character of its signature altered.                                       *)
C11_Witness ==
    /\ last.op = "verify_token" /\ last.tok = "sig_altered"
    /\ IssuedIsGood
    /\ FailedQuietly


----------------------------------------------------------------------------
(* Claims about get_current_user *)

(* what verify_token returns now for the token the last call was given *)
PresentedClaims == verify_token(present(last.tok, token), now).ret

(* ... it is valid and carries a subject claim *)
CarriesSubject == PresentedClaims # None /\ "sub" \in DOMAIN PresentedClaims[1]

(* ... it is valid and carries a subject claim that is not the empty string *)
CarriesNamedSubject == CarriesSubject /\ PresentedClaims[1]["sub"] # PyStr("")

(* C12: get_current_user(db, token) returns nothing when the token is        *)
(* invalid, or valid without a subject claim, or the store holds no user     *)
(* for the subject; for every valid token carrying a subject claim for       *)
(* which the store holds a user it returns exactly the store's document.     *)
C12_ResolveContract ==
    last.op = "get_current_user"
        => /\ last.exc = "None"
           /\ resolved =
                IF CarriesSubject /\ PresentedClaims[1]["sub"] \in DOMAIN users
                THEN Some(users[PresentedClaims[1]["sub"]])
                ELSE None

(* C13 as stated: every call of get_current_user performs exactly one        *)
(* lookup on the user store.                                                 *)
C13_ExactlyOneLookup ==
    last.op = "get_current_user" => Len(queries) = 1

(* C13, amended: a call of get_current_user performs exactly one lookup on   *)
(* the user store when the token is valid and carries a subject claim that   *)
(* is not empty, and none otherwise; it never writes to the user store,      *)
(* never changes the OTP store, and keeps no cached result: what it returns  *)
(* is what the store holds at the time of the call.                          *)
C13_ReadOnlyOneLookup ==
    [][(\E kind \in TokenKinds : GetCurrentUser(kind))
            => /\ users' = users
               /\ store' = store
               /\ Len(queries') = (IF CarriesNamedSubject' THEN 1 ELSE 0)
               /\ (Len(queries') = 1 =>
                      /\ queries'[1] = PresentedClaims'[1]["sub"]
                      /\ resolved' = find_one(users, queries'[1]))
               /\ (Len(queries') = 0 => resolved' = None)]_vars

(* C13 witness: with a code pending in the OTP store, the subject of a valid *)
(* token was looked up once, the store held no user for it, and the call     *)
(* returned nothing.                                                         *)
C13_Witness ==
    /\ last.op = "get_current_user" /\ last.tok = "issued"
    /\ Len(queries) = 1 /\ queries[1] \notin DOMAIN users
    /\ resolved = None
    /\ DOMAIN store # {}


----------------------------------------------------------------------------
(* Claims about the OTP store and the tokens in one process *)

(* the record of e is in the dict and its expiry has passed *)
ExpiredRecord(e) == e \in DOMAIN store /\ now > store[e].expires

(* the step is a generate_otp or verify_otp call for account e *)
CallFor(e) == last'.op \in {"generate_otp", "verify_otp"} /\ last'.email = e

(* C17: lazy expiry only.  The passage of time alone never changes the       *)
(* store; an expired record stays as it is until a verify_otp call for its   *)
(* account evicts it or a generate_otp call for its account overwrites it:   *)
(* no call for another account and no token operation removes it.            *)
C17_LazyExpiry ==
    [][/\ last'.op = "tick" => store' = store
       /\ \A e \in Emails :
            (ExpiredRecord(e) /\ ~CallFor(e))
                => e \in DOMAIN store' /\ store'[e] = store[e]
       /\ \A e \in Emails :
            (ExpiredRecord(e) /\ CallFor(e))
                => IF last'.op = "verify_otp"
                   THEN e \notin DOMAIN store'
                   ELSE store'[e].otp = last'.otp /\ store'[e].expires > now]_vars

(* C17 witness: the record of one account, expired, is still in the store    *)
(* after a code was generated and consumed for the other account, a token    *)
(* was issued, and that token was verified.                                  *)
C17_Witness ==
    \E e \in Emails, o \in Emails :
        /\ ExpiredRecord(e)
        /\ issued[o].live /\ issued[o].used /\ issued[o].at > store[e].expires
        /\ IsToken(token) /\ minted.at > store[e].expires
        /\ last.op = "verify_token"

(* the expiry create_access_token put on the token last issued, in ticks *)
ExpireAt == minted.to_encode["exp"].datetime

(* a token call leaves alone what is not its result: create_access_token     *)
(* the caller's dict and the OTP store, verify_token the token, the record   *)
(* of its issuance, the OTP store and the user store                         *)
TokenCallsFrame ==
    /\ last'.op = "create_access_token"
            => minted'.left = minted'.data /\ store' = store /\ users' = users
    /\ last'.op = "verify_token"
            => /\ store' = store /\ users' = users
               /\ token' = token /\ minted' = minted /\ now' = now

(* the step is a verify_token call on the token last issued, as issued *)
VerifiesIssued == last'.op = "verify_token" /\ last'.tok = "issued"

(* C18 as stated: token operations are stateless and free of side effects,   *)
(* and a token that validates once keeps validating on every later call      *)
(* until its expiry passes, after which it never validates again.            *)
C18_ValidUntilExpiryPasses ==
    [][/\ TokenCallsFrame
       /\ (VerifiesIssued /\ validated /\ now <= ExpireAt) => decoded' # None
       /\ (VerifiesIssued /\ now > ExpireAt) => decoded' = None]_vars

(* C18, amended: token operations are stateless and free of side effects,    *)
(* and a token that validates once keeps validating on every later call      *)
(* until the second its expiry falls in has passed, after which it never     *)
(* validates again.                                                          *)
C18_ValidUntilExpirySecondPasses ==
    [][/\ TokenCallsFrame
       /\ (VerifiesIssued /\ validated /\ timegm(now) <= timegm(ExpireAt))
                => decoded' # None
       /\ (VerifiesIssued /\ timegm(now) > timegm(ExpireAt)) => decoded' = None]_vars

(* C18 witness: with a code pending in the OTP store, a token that had       *)
(* validated before was refused once the second of its expiry had passed.    *)
C18_Witness ==
    /\ last.op = "verify_token" /\ last.tok = "issued"
    /\ validated /\ decoded = None
    /\ timegm(now) > timegm(ExpireAt)
    /\ minted.left = minted.data
    /\ DOMAIN store # {}


----------------------------------------------------------------------------
(* Claims about OTPStore under concurrent callers *)

(* the dict maps emails to records of a generated code and an expiry *)
StoreIntact ==
    /\ DOMAIN store \subseteq Emails
    /\ \A e \in DOMAIN store :
          /\ DOMAIN store[e] = {"otp", "expires"}
          /\ store[e].otp \in ConcCodes
          /\ store[e].expires \in OTP_EXPIRE..(now + OTP_EXPIRE)

(* C6: safe concurrent access with single use preserved.  Under every        *)
(* interleaving of generate_otp and verify_otp calls, no call raises, the    *)
(* store stays intact, and no generated code makes more than one verify_otp  *)
(* call return True.                                                         *)
C6_SafeConcurrentAccess ==
    /\ \A t \in Threads : threads[t].exc = "None"
    /\ StoreIntact
    /\ \A g \in 1..MaxGen : accepted[g] <= 1

(* the dict s cut down to the record of email a *)
Only(s, a) == [e \in DOMAIN s \cap {a} |-> s[e]]

(* C7: account isolation.  A step of a call on account a leaves the record   *)
(* of every other account as it was, and leaves the thread and a's record    *)
(* exactly as the same step would on a dict holding nothing but a's record;  *)
(* steps outside a call leave the dict alone.                                *)
C7_AccountIsolation ==
    [][/\ \A t \in Threads :
            (threads[t].pc # "idle" /\ threads'[t] # threads[t])
                => LET th == threads[t]
                       alone == thread_step(Only(store, th.email), now, th)
                   IN  /\ \A b \in Emails \ {th.email} :
                              Only(store', b) = Only(store, b)
                       /\ Only(store', th.email) = alone.store
                       /\ threads'[t] = alone.th
       /\ (\A t \in Threads : threads[t].pc = "idle" \/ threads'[t] = threads[t])
                => store' = store]_vars

(* C7 witness: while one thread is inside verify_otp for one account, about  *)
(* to delete its record, a call for the other account has consumed that      *)
(* account's record.                                                         *)
C7_Witness ==
    \E t \in Threads, a \in Emails, b \in Emails :
        /\ a # b
        /\ threads[t].pc = "L39" /\ threads[t].email = a
        /\ a \in DOMAIN store /\ store[a] = threads[t].stored
        /\ rid[b] > 0 /\ accepted[rid[b]] = 1
        /\ b \notin DOMAIN store

====
